---- MODULE Spec2Model ----
(***************************************************************************)
(* Model of src/main.py: the ChatGPT pull-request reviewer.                *)
(*                                                                         *)
(*   SpecSel    files_for_review (with line_start_patch and fnmatch)       *)
(*              applied to pull requests that developers build by pushing  *)
(*              commits and file entries.                                  *)
(*   SpecReply  handle_replies run repeatedly over a comment thread that   *)
(*              people and the bot add to, also while a run waits.         *)
(*   Spec       one run of main(): select files, fetch and review each,    *)
(*              then handle_replies and create_review, while other actors  *)
(*              comment on the pull request.                               *)
(*                                                                         *)
(* Strings that the code inspects character by character (file names,     *)
(* glob patterns, patches) are sequences of one-character strings.         *)
(***************************************************************************)
EXTENDS Integers, Sequences, FiniteSets, TLC

VARIABLES
    commits,     \* the pull request on the host: what pull.get_commits() yields
    patterns,    \* the pattern list handed to files_for_review
    selected,    \* outcome of the files_for_review call (SpecSel)
    thread,      \* the pull request's comments on the host
    lastRun,     \* the latest handle_replies run: what it fetched and has posted
    humanSince,  \* a non-bot comment arrived since the latest run fetched the
                 \* comments: "none", "during" that run only, or "after" it ended
    pc,          \* position of main()
    records,     \* main(): the list files_for_review returned
    idx,         \* main(): index of the next record of the for loop
    comments,    \* main(): the local list `comments`
    calls,       \* main(): the calls made to the host and the completion service
    reviews      \* reviews the host accepted through pull.create_review

vars == <<commits, patterns, selected, thread, lastRun, humanSince,
          pc, records, idx, comments, calls, reviews>>

selVars == <<commits, patterns, selected>>
replyVars == <<lastRun, humanSince>>
mainVars == <<pc, records, idx, comments, calls, reviews>>

-----------------------------------------------------------------------------
(* Bounds *)

MaxCommits == 2
MaxFileEntries == 2
MaxComments == 4
MaxPriorComments == 3

-----------------------------------------------------------------------------
(* Input alphabets *)

NameA == <<"a", ".", "p", "y">>
NameB == <<"b", ".", "t", "s">>
FileNames == {NameA, NameB}

Statuses == {"modified", "removed", "unchanged"}

\* "@@ -0,0 +1,3 @@"
PatchNew == <<"@", "@", " ", "-", "0", ",", "0", " ", "+", "1", ",", "3", " ", "@", "@">>
\* "@@ -5,7 +5,8 @@"
PatchFive == <<"@", "@", " ", "-", "5", ",", "7", " ", "+", "5", ",", "8", " ", "@", "@">>
\* "@@ +12,3 @@"
PatchPlus == <<"@", "@", " ", "+", "1", "2", ",", "3", " ", "@", "@">>
\* "Binary"
PatchBinary == <<"B", "i", "n", "a", "r", "y">>
\* "@@ -,3 @@"
PatchNoDigits == <<"@", "@", " ", "-", ",", "3", " ", "@", "@">>
Patches == {PatchNew, PatchFive, PatchPlus, PatchBinary, PatchNoDigits}

FileEntries == [filename : FileNames, status : Statuses, patch : Patches]

\* "*.py" | "*.py,*.ts" | "a*,?.py"
PatternLists ==
    { << <<"*", ".", "p", "y">> >>,
      << <<"*", ".", "p", "y">>, <<"*", ".", "t", "s">> >>,
      << <<"a", "*">>, <<"?", ".", "p", "y">> >> }

-----------------------------------------------------------------------------
(* fnmatch.fnmatch(name, pat) for patterns built from literals, * and ? *)

RECURSIVE fnmatch(_, _)
fnmatch(name, pat) ==
    IF pat = <<>> THEN name = <<>>
    ELSE IF Head(pat) = "*"
         THEN \/ fnmatch(name, Tail(pat))
              \/ name # <<>> /\ fnmatch(Tail(name), pat)
    ELSE IF Head(pat) = "?"
         THEN name # <<>> /\ fnmatch(Tail(name), Tail(pat))
    ELSE name # <<>> /\ Head(name) = Head(pat) /\ fnmatch(Tail(name), Tail(pat))

-----------------------------------------------------------------------------
\* line_start_patch: "@@ ", a sign, a group of digits \d* and a comma at the
\* start of the patch; then int() of the group

Digits == <<"0", "1", "2", "3", "4", "5", "6", "7", "8", "9">>
IsDigit(c) == \E i \in 1..Len(Digits) : Digits[i] = c
DigitVal(c) == (CHOOSE i \in 1..Len(Digits) : Digits[i] = c) - 1

\* length of the run of digits of s that starts at position i (the greedy group)
RECURSIVE DigitRun(_, _)
DigitRun(s, i) ==
    IF i <= Len(s) /\ IsDigit(s[i]) THEN 1 + DigitRun(s, i + 1) ELSE 0

\* int() of the n digits of s that start at position i
RECURSIVE ToInt(_, _, _)
ToInt(s, i, n) ==
    IF n = 0 THEN 0 ELSE 10 * ToInt(s, i, n - 1) + DigitVal(s[i + n - 1])

Raised == [raised |-> TRUE, value |-> 0]
Returned(v) == [raised |-> FALSE, value |-> v]

\* A mutant: a header that does not parse yields line 0 instead of an error.
line_start_patch_default(patch) ==
    LET n == DigitRun(patch, 5) IN
    IF /\ Len(patch) >= 5 + n
       /\ patch[1] = "@" /\ patch[2] = "@" /\ patch[3] = " "
       /\ patch[4] \in {"-", "+"}
       /\ patch[5 + n] = ","
       /\ n > 0
    THEN Returned(ToInt(patch, 5, n))
    ELSE Returned(0)

\* No match: match.group fails on None.  Empty digits: int("") fails.
line_start_patch(patch) ==
    LET n == DigitRun(patch, 5) IN
    IF /\ Len(patch) >= 5 + n
       /\ patch[1] = "@" /\ patch[2] = "@" /\ patch[3] = " "
       /\ patch[4] \in {"-", "+"}
       /\ patch[5 + n] = ","
       /\ n > 0
    THEN Returned(ToInt(patch, 5, n))
    ELSE Raised

-----------------------------------------------------------------------------
(* files_for_review *)

\* `changes` is the insertion-ordered dict, kept as a sequence of
\* [filename, line, commit] with at most one element per filename.
HasKey(changes, filename) ==
    \E i \in 1..Len(changes) : changes[i].filename = filename

\* A mutant: the recorded entry is not seen, so a later match is stored again.
NotRecorded_blind(changes, filename) == TRUE

\* not changes.get(file.filename, None): the stored tuple is never falsy
NotRecorded(changes, filename) == ~HasKey(changes, filename)

\* changes[filename] = (line, commit)
SetItem(changes, filename, line, sha) ==
    IF HasKey(changes, filename)
    THEN [i \in 1..Len(changes) |->
             IF changes[i].filename = filename
             THEN [filename |-> filename, line |-> line, commit |-> sha]
             ELSE changes[i]]
    ELSE Append(changes, [filename |-> filename, line |-> line, commit |-> sha])

\* A mutant: only "unchanged" entries are skipped.
SkippedStatus_unchangedOnly(status) == status = "unchanged"

\* file.status in ["unchanged", "removed"]
SkippedStatus(status) == status \in {"unchanged", "removed"}

\* The scan state: the dict so far, or the exception that is propagating.
ScanStart == [failed |-> FALSE, changes |-> <<>>]

\* for pattern in patterns: (from the k-th pattern on)
RECURSIVE ScanPatterns(_, _, _, _, _)
ScanPatterns(st, file, sha, pats, k) ==
    IF st.failed \/ k > Len(pats) THEN st
    ELSE IF fnmatch(file.filename, pats[k]) /\ NotRecorded(st.changes, file.filename)
         THEN LET parsed == line_start_patch(file.patch) IN
              IF parsed.raised
              THEN [failed |-> TRUE, changes |-> st.changes]
              ELSE ScanPatterns(
                       [failed |-> FALSE,
                        changes |-> SetItem(st.changes, file.filename, parsed.value, sha)],
                       file, sha, pats, k + 1)
         ELSE ScanPatterns(st, file, sha, pats, k + 1)

\* for file in commit.files: (from the j-th file on)
RECURSIVE ScanFiles(_, _, _, _)
ScanFiles(st, commit, pats, j) ==
    IF st.failed \/ j > Len(commit.files) THEN st
    ELSE IF SkippedStatus(commit.files[j].status)
         THEN ScanFiles(st, commit, pats, j + 1)
         ELSE ScanFiles(ScanPatterns(st, commit.files[j], commit.sha, pats, 1),
                        commit, pats, j + 1)

\* for commit in commits: (from the i-th commit on)
RECURSIVE ScanCommits(_, _, _, _)
ScanCommits(st, cs, pats, i) ==
    IF st.failed \/ i > Len(cs) THEN st
    ELSE ScanCommits(ScanFiles(st, cs[i], pats, 1), cs, pats, i + 1)

\* A mutant: the parsed line is used without the clamp.
ClampLine_none(n) == n

\* max(1, x[1][0])
ClampLine(n) == IF n >= 1 THEN n ELSE 1

files_for_review(cs, pats) ==
    LET st == ScanCommits(ScanStart, cs, pats, 1) IN
    IF st.failed THEN [raised |-> TRUE, value |-> <<>>]
    ELSE Returned([i \in 1..Len(st.changes) |->
                      [filename |-> st.changes[i].filename,
                       line |-> ClampLine(st.changes[i].line),
                       commit |-> st.changes[i].commit]])

-----------------------------------------------------------------------------
(* handle_replies *)

Bot == "github-actions[bot]"
Human == "alice"
Users == {Bot, Human}

\* A comment of the thread is [id, user, reply_to_id]; the host numbers the
\* comments in the order they arrive, and reply_to_id is 0 for a comment
\* that replies to nothing.

\* [reply for reply in comments
\*    if reply.reply_to_id == comment.id and reply.user.login != bot]
HumanReplies(cs, comment) ==
    SelectSeq(cs, LAMBDA reply : reply.reply_to_id = comment.id /\ reply.user # Bot)

\* [bot_reply for bot_reply in comments
\*    if bot_reply.reply_to_id == reply.id and bot_reply.user.login == bot]
BotReplies(cs, reply) ==
    SelectSeq(cs, LAMBDA b : b.reply_to_id = reply.id /\ b.user = Bot)

\* A mutant: the check for an earlier answer is dropped.
AlreadyHandled_never(cs, reply) == FALSE

\* if bot_replies: ... continue
AlreadyHandled(cs, reply) == BotReplies(cs, reply) # <<>>

\* for reply in replies: (from the m-th on) the replies that get an answer
RECURSIVE AnswerReplies(_, _, _)
AnswerReplies(cs, replies, m) ==
    IF m > Len(replies) THEN <<>>
    ELSE (IF AlreadyHandled(cs, replies[m]) THEN <<>> ELSE <<replies[m]>>)
         \o AnswerReplies(cs, replies, m + 1)

\* comment.user.login == "github-actions[bot]"
IsBotComment(comment) == comment.user = Bot

\* for comment in comments: (from the n-th on)
RECURSIVE ScanComments(_, _)
ScanComments(cs, n) ==
    IF n > Len(cs) THEN <<>>
    ELSE (IF IsBotComment(cs[n])
          THEN AnswerReplies(cs, HumanReplies(cs, cs[n]), 1)
          ELSE <<>>)
         \o ScanComments(cs, n + 1)

\* The replies that one run over the fetched comments answers, in order.
RepliesToAnswer(cs) == ScanComments(cs, 1)

\* A mutant: the answer is posted as a comment that replies to nothing.
create_reply_detached(th, reply) ==
    Append(th, [id |-> Len(th) + 1, user |-> Bot, reply_to_id |-> 0])

\* reply.create_reply(text): the host records a bot comment under the reply
create_reply(th, reply) ==
    Append(th, [id |-> Len(th) + 1, user |-> Bot, reply_to_id |-> reply.id])

\* A handle_replies run that has not happened.
NoRun == [ran |-> FALSE, running |-> FALSE, response |-> FALSE,
          completed |-> FALSE, snapshot |-> <<>>, posts |-> <<>>, at |-> <<>>,
          second |-> FALSE, quiet |-> FALSE, afterCompleted |-> FALSE,
          prevLen |-> 0, prior |-> 0]

\* comments = pull.get_issue_comments(): the run starts on the thread th as
\* the host holds it now (ok), or the fetch raises.  With nothing to answer
\* the loops make no further call and the run returns at once.  prev and
\* humanSeen say how this run follows the one before.
RunStarted(th, prev, humanSeen, ok) ==
    [ran |-> TRUE,
     running |-> ok /\ RepliesToAnswer(th) # <<>>,
     response |-> FALSE,
     completed |-> ok /\ RepliesToAnswer(th) = <<>>,
     snapshot |-> IF ok THEN th ELSE <<>>,
     posts |-> <<>>,
     at |-> <<>>,
     second |-> ok /\ prev.completed /\ humanSeen = "none",
     quiet |-> ok /\ prev.completed /\ humanSeen # "after",
     afterCompleted |-> ok /\ prev.completed,
     prevLen |-> IF ok /\ prev.completed THEN Len(prev.snapshot) ELSE 0,
     prior |-> IF ok /\ prev.completed THEN Len(prev.posts) ELSE 0]

\* The reply the run answers next, in the order of the fetched comments.
NextReply(run) == RepliesToAnswer(run.snapshot)[Len(run.posts) + 1]

\* response = openai.Completion.create(...) for the next reply: the run
\* holds the response (ok), or the call raised and the run ends there.
RunResponded(run, ok) ==
    [run EXCEPT !.response = ok, !.running = ok]

\* reply.create_reply(response.choices[0].text): the host recorded the answer
\* as comment number id (ok) and the run goes on to the next reply or
\* returns; or the call raised, nothing is posted and the run ends there.
RunAnswered(run, id, ok) ==
    LET posts == IF ok THEN Append(run.posts, NextReply(run)) ELSE run.posts
        last == Len(posts) = Len(RepliesToAnswer(run.snapshot))
    IN  [run EXCEPT !.posts = posts,
                    !.at = IF ok THEN Append(run.at, id) ELSE run.at,
                    !.response = FALSE,
                    !.running = ok /\ ~last,
                    !.completed = ok /\ last]

-----------------------------------------------------------------------------
(* SpecSel: developers build the pull request, then files_for_review runs *)

NotCalled == [called |-> FALSE, raised |-> FALSE, value |-> <<>>]

RECURSIVE CountEntries(_, _)
CountEntries(cs, i) ==
    IF i > Len(cs) THEN 0 ELSE Len(cs[i].files) + CountEntries(cs, i + 1)

\* Values of the variables a specification does not use.
ReplyIdle == lastRun = NoRun /\ humanSince = "none"
MainIdle ==
    /\ pc = "off" /\ records = <<>> /\ idx = 0 /\ comments = <<>>
    /\ calls = <<>> /\ reviews = <<>>
SelIdle == commits = <<>> /\ patterns = <<>> /\ selected = NotCalled

SelInit ==
    /\ commits = <<>>
    /\ patterns \in PatternLists
    /\ selected = NotCalled
    /\ thread = <<>>
    /\ ReplyIdle
    /\ MainIdle

\* A commit is pushed to the pull request; its sha is its position.
PushCommit ==
    /\ ~selected.called
    /\ Len(commits) < MaxCommits
    /\ commits' = Append(commits, [sha |-> Len(commits) + 1, files |-> <<>>])
    /\ UNCHANGED <<patterns, selected, thread, replyVars, mainVars>>

\* The latest commit touches one more file; a commit lists a path once.
AddFile ==
    /\ ~selected.called
    /\ commits # <<>>
    /\ CountEntries(commits, 1) < MaxFileEntries
    /\ \E e \in FileEntries :
          LET n == Len(commits)
              c == commits[n] IN
          /\ \A j \in 1..Len(c.files) : c.files[j].filename # e.filename
          /\ commits' = [commits EXCEPT ![n].files = Append(c.files, e)]
    /\ UNCHANGED <<patterns, selected, thread, replyVars, mainVars>>

\* files_for_review(pull, patterns)
Select ==
    /\ ~selected.called
    /\ LET r == files_for_review(commits, patterns) IN
       selected' = [called |-> TRUE, raised |-> r.raised, value |-> r.value]
    /\ UNCHANGED <<commits, patterns, thread, replyVars, mainVars>>

SelNext == PushCommit \/ AddFile \/ Select

SpecSel == SelInit /\ [][SelNext]_vars

-----------------------------------------------------------------------------
(* What the claims about files_for_review speak of, stated on the input *)

\* The line a hunk header names; -1 for a header that names none.
HeaderLine(patch) ==
    CASE patch = PatchNew -> 0
      [] patch = PatchFive -> 5
      [] patch = PatchPlus -> 12
      [] OTHER -> -1

\* The headers that "@@ -<n>," and "@@ +<n>," do not describe.
Unparseable(patch) == patch \in {PatchBinary, PatchNoDigits}

Positions == {ij \in (1..Len(commits)) \X (1..MaxFileEntries + 1) :
                 ij[2] <= Len(commits[ij[1]].files)}
EntryAt(ij) == commits[ij[1]].files[ij[2]]
Earlier(ij, kl) == ij[1] < kl[1] \/ (ij[1] = kl[1] /\ ij[2] < kl[2])

\* The entry matches some pattern and is neither removed nor unchanged.
Eligible(ij) ==
    /\ EntryAt(ij).status \notin {"removed", "unchanged"}
    /\ \E k \in 1..Len(patterns) : fnmatch(EntryAt(ij).filename, patterns[k])

\* The first eligible entry of its file name, in commit order then file order.
FirstEligible(ij) ==
    /\ Eligible(ij)
    /\ \A kl \in Positions :
          (Earlier(kl, ij) /\ EntryAt(kl).filename = EntryAt(ij).filename)
              => ~Eligible(kl)

SelReturned == selected.called /\ ~selected.raised
Out == selected.value

\* C1: files_for_review returns at most one record per file name, and the
\* record of a file name carries the commit, and the line, of the first entry
\* in commit order that has this name, matches a pattern and is neither
\* removed nor unchanged; no later commit replaces them.
C1_FirstMatchWins ==
    SelReturned =>
        /\ \A a, b \in 1..Len(Out) : Out[a].filename = Out[b].filename => a = b
        /\ \A a \in 1..Len(Out) :
              \E ij \in Positions :
                  /\ FirstEligible(ij)
                  /\ EntryAt(ij).filename = Out[a].filename
                  /\ Out[a].commit = commits[ij[1]].sha
                  /\ Out[a].line = IF HeaderLine(EntryAt(ij).patch) < 1 THEN 1
                                   ELSE HeaderLine(EntryAt(ij).patch)

\* C1 witness: one file changed in two commits with different hunk lines,
\* both entries eligible, and files_for_review has returned.
C1_Witness ==
    /\ SelReturned
    /\ \E ij, kl \in Positions :
          /\ ij[1] < kl[1]
          /\ Eligible(ij) /\ Eligible(kl)
          /\ EntryAt(ij).filename = EntryAt(kl).filename
          /\ EntryAt(ij).patch = PatchFive /\ EntryAt(kl).patch = PatchPlus

\* C5 as claimed: any eligible entry with an unparseable hunk header makes
\* files_for_review fail as a whole.
C5_AnyUnparseableFails ==
    (selected.called /\ \E ij \in Positions :
                            Eligible(ij) /\ Unparseable(EntryAt(ij).patch))
        => (selected.raised /\ Out = <<>>)

\* C5 amended: an unparseable hunk header on the first eligible entry of a
\* file name makes files_for_review fail as a whole, with no record returned
\* and no default line substituted.
C5_FirstUnparseableFails ==
    (selected.called /\ \E ij \in Positions :
                            FirstEligible(ij) /\ Unparseable(EntryAt(ij).patch))
        => (selected.raised /\ Out = <<>>)

\* C5 witness: a parseable eligible file, then another file whose first
\* eligible entry does not parse, and the call has failed.
C5_Witness ==
    /\ selected.called /\ selected.raised
    /\ \E ij, kl \in Positions :
          /\ Earlier(ij, kl)
          /\ FirstEligible(ij) /\ ~Unparseable(EntryAt(ij).patch)
          /\ FirstEligible(kl) /\ Unparseable(EntryAt(kl).patch)

\* C7: every returned record takes its commit from an entry of that file
\* name that is neither removed nor unchanged, and a file name whose entries
\* are all removed or unchanged is not returned.
C7_SkippedNeverSelected ==
    SelReturned =>
        \A a \in 1..Len(Out) :
            /\ \E ij \in Positions :
                  /\ EntryAt(ij).filename = Out[a].filename
                  /\ EntryAt(ij).status \notin {"removed", "unchanged"}
            /\ \A ij \in Positions :
                  (/\ EntryAt(ij).filename = Out[a].filename
                   /\ commits[ij[1]].sha = Out[a].commit)
                      => EntryAt(ij).status \notin {"removed", "unchanged"}

\* C7 witness: a removed entry that matches a pattern and has a parseable
\* header comes first, the same file is modified in a later commit, and the
\* call has returned; another file is only ever unchanged.
C7_Witness ==
    /\ SelReturned
    /\ \E ij, kl \in Positions :
          /\ ij[1] < kl[1]
          /\ EntryAt(ij).status = "removed" /\ EntryAt(ij).patch = PatchFive
          /\ \E k \in 1..Len(patterns) : fnmatch(EntryAt(ij).filename, patterns[k])
          /\ EntryAt(kl).filename = EntryAt(ij).filename
          /\ Eligible(kl)

\* C8: every returned line is at least 1 and equals max(1, n) for the n of
\* the hunk header of that file in the attributing commit.
C8_LineClamped ==
    SelReturned =>
        \A a \in 1..Len(Out) :
            /\ Out[a].line >= 1
            /\ \A ij \in Positions :
                  (/\ EntryAt(ij).filename = Out[a].filename
                   /\ commits[ij[1]].sha = Out[a].commit)
                      => /\ ~Unparseable(EntryAt(ij).patch)
                         /\ HeaderLine(EntryAt(ij).patch) = 0 => Out[a].line = 1
                         /\ HeaderLine(EntryAt(ij).patch) >= 1
                                => Out[a].line = HeaderLine(EntryAt(ij).patch)

\* C8 witness: one returned record whose header names line 0 and one whose
\* header names line 5.
C8_Witness ==
    /\ SelReturned
    /\ \E a, b \in 1..Len(Out) :
          /\ Out[a].line = 1 /\ Out[b].line = 5
          /\ \E ij, kl \in Positions :
                /\ EntryAt(ij).filename = Out[a].filename
                /\ commits[ij[1]].sha = Out[a].commit
                /\ EntryAt(ij).patch = PatchNew
                /\ EntryAt(kl).filename = Out[b].filename
                /\ commits[kl[1]].sha = Out[b].commit
                /\ EntryAt(kl).patch = PatchFive

-----------------------------------------------------------------------------
(* SpecReply: people and the bot comment, handle_replies runs again and again *)

ReplyInit ==
    /\ thread = <<>>
    /\ lastRun = NoRun
    /\ humanSince = "none"
    /\ SelIdle
    /\ MainIdle

\* Somebody comments on the pull request, at top level or under a comment,
\* while the thread holds fewer than limit comments.
Commented(limit) ==
    /\ Len(thread) < limit
    /\ \E u \in Users, r \in 0..Len(thread) :
          /\ thread' = Append(thread, [id |-> Len(thread) + 1, user |-> u,
                                       reply_to_id |-> r])
          /\ humanSince' = IF u = Bot THEN humanSince
                         ELSE IF lastRun.running THEN "during" ELSE "after"

AddComment ==
    /\ Commented(MaxComments)
    /\ UNCHANGED <<lastRun, selVars, mainVars>>

\* handle_replies is called: it fetches the comments.
FetchComments ==
    /\ ~lastRun.running
    /\ \E ok \in BOOLEAN :
          /\ lastRun' = RunStarted(thread, lastRun, humanSince, ok)
          /\ humanSince' = IF ok THEN "none" ELSE humanSince
    /\ UNCHANGED <<thread, selVars, mainVars>>

\* The running handle_replies gets the completion for its next reply, or
\* the call raises.
GenerateAnswer ==
    /\ lastRun.running /\ ~lastRun.response
    /\ \E ok \in BOOLEAN : lastRun' = RunResponded(lastRun, ok)
    /\ UNCHANGED <<thread, humanSince, selVars, mainVars>>

\* The running handle_replies posts the response under the reply, or the
\* call raises.
AnswerReply ==
    /\ lastRun.running /\ lastRun.response
    /\ \E ok \in BOOLEAN :
          /\ thread' = IF ok THEN create_reply(thread, NextReply(lastRun)) ELSE thread
          /\ lastRun' = RunAnswered(lastRun, Len(thread) + 1, ok)
    /\ UNCHANGED <<humanSince, selVars, mainVars>>

ReplyNext == AddComment \/ FetchComments \/ GenerateAnswer \/ AnswerReply

SpecReply == ReplyInit /\ [][ReplyNext]_vars

\* The comment is a non-bot reply to a bot comment and no bot comment
\* replies to it, among the comments cs.
Unanswered(c, cs) ==
    /\ c.user # Bot
    /\ \E n \in 1..Len(cs) : cs[n].id = c.reply_to_id /\ cs[n].user = Bot
    /\ ~\E n \in 1..Len(cs) : cs[n].reply_to_id = c.id /\ cs[n].user = Bot

\* How many of the answers posted by the latest run reply to comment c.
AnswersTo(c) == Cardinality({n \in 1..Len(lastRun.posts) : lastRun.posts[n].id = c.id})

\* C2: over the comments it fetched, a run of handle_replies posts at most
\* one answer per comment and only to unanswered non-bot replies to bot
\* comments; a run that returns has posted exactly one answer for each of
\* them; each answer is on the host as a new bot comment under the reply it
\* answers, whatever else was added to the thread meanwhile.
C2_OneAnswerPerUnansweredReply ==
    lastRun.ran =>
        LET cs == lastRun.snapshot IN
        /\ \A n \in 1..Len(cs) :
              /\ AnswersTo(cs[n]) <= 1
              /\ ~Unanswered(cs[n], cs) => AnswersTo(cs[n]) = 0
              /\ (lastRun.completed /\ Unanswered(cs[n], cs)) => AnswersTo(cs[n]) = 1
        /\ Len(lastRun.at) = Len(lastRun.posts)
        /\ \A m \in 1..Len(lastRun.posts) :
              /\ \E n \in 1..Len(cs) : cs[n] = lastRun.posts[m]
              /\ lastRun.at[m] > Len(cs) /\ lastRun.at[m] <= Len(thread)
              /\ m > 1 => lastRun.at[m] > lastRun.at[m - 1]
              /\ thread[lastRun.at[m]].user = Bot
              /\ thread[lastRun.at[m]].reply_to_id = lastRun.posts[m].id
        /\ Len(thread) >= Len(cs)
        /\ SubSeq(thread, 1, Len(cs)) = cs

\* C2 witness: a returned run over a thread with one answered human reply,
\* one unanswered human reply (which it answered) and a comment of neither
\* kind.
C2_Witness ==
    /\ lastRun.ran /\ lastRun.completed
    /\ Len(lastRun.posts) = 1
    /\ \E n \in 1..Len(lastRun.snapshot) :
          LET c == lastRun.snapshot[n] IN
          /\ c.user # Bot /\ c.reply_to_id # 0
          /\ ~Unanswered(c, lastRun.snapshot)
          /\ \E q \in 1..Len(lastRun.snapshot) :
                lastRun.snapshot[q].id = c.reply_to_id /\ lastRun.snapshot[q].user = Bot

\* C10 as claimed: a run of handle_replies that follows a returned run,
\* with no non-bot comment added between the two runs, posts nothing.
C10_QuietBetweenRuns ==
    lastRun.quiet => lastRun.posts = <<>>

\* C10 amended: a run of handle_replies that follows a returned run, with no
\* non-bot comment added since that run fetched the comments, posts nothing;
\* a run that follows a returned run answers only comments that run had not
\* fetched; and no run ever answers a bot comment.
C10_SecondRunPostsNothing ==
    /\ lastRun.second => lastRun.posts = <<>>
    /\ lastRun.afterCompleted =>
          \A m \in 1..Len(lastRun.posts) : lastRun.posts[m].id > lastRun.prevLen
    /\ \A m \in 1..Len(lastRun.posts) : lastRun.posts[m].user # Bot

\* C10 witness: the second of two such runs, the first of which posted.
C10_Witness ==
    lastRun.second /\ lastRun.prior > 0 /\ lastRun.completed

-----------------------------------------------------------------------------
(* Spec: one run of main() *)

\* What repo.get_contents(...).decoded_content.decode("utf8") can give.
Contents == {<<>>, <<"x">>}
FetchOutcomes ==
    {[ok |-> FALSE, content |-> <<>>]} \cup {[ok |-> TRUE, content |-> c] : c \in Contents}

\* What the chat completion call can give.
CompletionOutcomes == {[ok |-> FALSE, text |-> ""], [ok |-> TRUE, text |-> "LGTM"]}

\* The pull requests main() is run on: one commit that touches each file
\* name at most once.
FileLists ==
    {<<>>} \cup {<<e>> : e \in FileEntries}
           \cup {<<e[1], e[2]>> : e \in {p \in FileEntries \X FileEntries :
                                           p[1].filename # p[2].filename}}
Pulls == {<<[sha |-> 1, files |-> fs]>> : fs \in FileLists}

\* review(): "*ChatGPT review for {filename}:*\n{chat_review}"
review(filename, chat_review) == [file |-> filename, text |-> chat_review]

\* A mutant: empty content is reviewed like any other.
SkipContent_never(content) == FALSE

\* if len(content) == 0: continue
SkipContent(content) == Len(content) = 0

\* A mutant: an error in the loop body is swallowed and the loop goes on.
AfterIteration_swallow(ok) == "loop"

\* An exception in the loop body leaves main(); otherwise the loop goes on.
AfterIteration(ok) == IF ok THEN "loop" ELSE "aborted"

\* A mutant: the guard on the number of comments is dropped.
AfterLoop_unguarded(cmts) == "handle_replies"

\* if len(comments) > 0:
AfterLoop(cmts) == IF Len(cmts) > 0 THEN "handle_replies" ELSE "done"

\* A mutant: an error of handle_replies is swallowed and the review goes out.
AfterHandleReplies_swallow(ok) == "create_review"

\* handle_replies(...) returns, then pull.create_review(...) is called.
AfterHandleReplies(ok) == IF ok THEN "create_review" ELSE "aborted"

Call(op, path, ref, ok, empty) ==
    [op |-> op, path |-> path, ref |-> ref, ok |-> ok, empty |-> empty]

Init ==
    /\ pc = "start"
    /\ records = <<>>
    /\ idx = 0
    /\ comments = <<>>
    /\ calls = <<>>
    /\ reviews = <<>>
    /\ thread = <<>>
    /\ ReplyIdle
    /\ SelIdle

\* Another actor comments on the pull request, at any time.
OtherComment ==
    /\ Commented(MaxPriorComments)
    /\ UNCHANGED <<lastRun, selVars, mainVars>>

\* files_for_review(pull, file_patterns) on the pull request the host holds
SelectFiles ==
    /\ pc = "start"
    /\ \E cs \in Pulls, pats \in PatternLists :
          LET r == files_for_review(cs, pats) IN
          /\ records' = r.value
          /\ pc' = IF r.raised THEN "aborted" ELSE "loop"
    /\ idx' = 1
    /\ UNCHANGED <<comments, calls, reviews, thread, replyVars, selVars>>

\* The head of one iteration of the for loop: repo.get_contents(...) for
\* the next record.  The call raises, or the content is empty and the loop
\* goes on to the next record, or main() enters review() with it.
FetchContent ==
    /\ pc = "loop"
    /\ idx <= Len(records)
    /\ \E fetch \in FetchOutcomes :
          LET rec == records[idx]
              asked == fetch.ok /\ ~SkipContent(fetch.content)
          IN
          /\ calls' = Append(calls, Call("get_contents", rec.filename, rec.commit,
                                         fetch.ok, fetch.ok /\ Len(fetch.content) = 0))
          /\ pc' = IF asked THEN "review" ELSE AfterIteration(fetch.ok)
          /\ idx' = IF asked THEN idx ELSE idx + 1
    /\ UNCHANGED <<records, comments, reviews, thread, replyVars, selVars>>

\* review(filename, content, ...): the chat completion call for the record
\* just fetched; its text makes the comment appended to the list.
ReviewContent ==
    /\ pc = "review"
    /\ \E completion \in CompletionOutcomes :
          LET rec == records[idx] IN
          /\ calls' = Append(calls, Call("chat_completion", rec.filename, 0,
                                         completion.ok, FALSE))
          /\ comments' =
                IF completion.ok
                THEN Append(comments,
                            [path |-> rec.filename, line |-> rec.line,
                             body |-> review(rec.filename, completion.text)])
                ELSE comments
          /\ pc' = AfterIteration(completion.ok)
    /\ idx' = idx + 1
    /\ UNCHANGED <<records, reviews, thread, replyVars, selVars>>

\* The loop is over: the test on len(comments).
ExitLoop ==
    /\ pc = "loop"
    /\ idx > Len(records)
    /\ pc' = AfterLoop(comments)
    /\ UNCHANGED <<records, idx, comments, calls, reviews, thread,
                   replyVars, selVars>>

\* A call of handle_replies has ended: how main() goes on, and the record
\* of the call.
Left(run, log) ==
    IF run.running THEN log
    ELSE Append(log, Call("handle_replies", <<>>, 0, run.completed, FALSE))
PcAfter(run) ==
    IF run.running THEN (IF run.response THEN "posting" ELSE "answering")
    ELSE AfterHandleReplies(run.completed)

\* handle_replies(...), called from main(): it fetches the comments.
HandleReplies ==
    /\ pc = "handle_replies"
    /\ \E ok \in BOOLEAN :
          LET run == RunStarted(thread, lastRun, humanSince, ok) IN
          /\ lastRun' = run
          /\ humanSince' = IF ok THEN "none" ELSE humanSince
          /\ calls' = Left(run, Append(calls, Call("get_issue_comments", <<>>, 0, ok, FALSE)))
          /\ pc' = PcAfter(run)
    /\ UNCHANGED <<records, idx, comments, reviews, thread, selVars>>

\* handle_replies asks for the completion for its next reply.
ReplyCompletion ==
    /\ pc = "answering"
    /\ \E ok \in BOOLEAN :
          LET run == RunResponded(lastRun, ok) IN
          /\ lastRun' = run
          /\ calls' = Left(run, Append(calls, Call("completion", <<>>, NextReply(lastRun).id,
                                                   ok, FALSE)))
          /\ pc' = PcAfter(run)
    /\ UNCHANGED <<records, idx, comments, reviews, thread, humanSince, selVars>>

\* handle_replies posts the response under the reply.
PostReply ==
    /\ pc = "posting"
    /\ \E ok \in BOOLEAN :
          LET run == RunAnswered(lastRun, Len(thread) + 1, ok) IN
          /\ thread' = IF ok THEN create_reply(thread, NextReply(lastRun)) ELSE thread
          /\ lastRun' = run
          /\ calls' = Left(run, Append(calls, Call("create_reply", <<>>, NextReply(lastRun).id,
                                                   ok, FALSE)))
          /\ pc' = PcAfter(run)
    /\ UNCHANGED <<records, idx, comments, reviews, humanSince, selVars>>

\* pull.create_review(body=..., event="COMMENT", comments=comments)
CreateReview ==
    /\ pc = "create_review"
    /\ \E ok \in BOOLEAN :
          /\ calls' = Append(calls, Call("create_review", <<>>, 0, ok, FALSE))
          /\ reviews' = IF ok
                        THEN Append(reviews, [body |-> "**ChatGPT code review**",
                                              event |-> "COMMENT",
                                              comments |-> comments])
                        ELSE reviews
          /\ pc' = IF ok THEN "done" ELSE "aborted"
    /\ UNCHANGED <<records, idx, comments, thread, replyVars, selVars>>

Next ==
    \/ SelectFiles \/ FetchContent \/ ReviewContent \/ ExitLoop
    \/ HandleReplies \/ ReplyCompletion \/ PostReply \/ CreateReview
    \/ OtherComment

Spec == Init /\ [][Next]_vars

-----------------------------------------------------------------------------
(* What the claims about main() speak of, stated on the calls it made *)

CallsOf(op) == {k \in 1..Len(calls) : calls[k].op = op}
FileCalls == CallsOf("get_contents") \cup CallsOf("chat_completion")
ReplyCalls ==
    CallsOf("get_issue_comments") \cup CallsOf("completion")
        \cup CallsOf("create_reply") \cup CallsOf("handle_replies")

\* C3: the review is created at most once, only after a handle_replies call
\* that returned and all of its posts, after every record was fetched and
\* every completion call was made, and only with comments to submit;
\* handle_replies starts after the loop over the files; a run that produced a
\* comment and ends without an error has run handle_replies once and then
\* created the review once, and the host holds that one review with all the
\* comments.
C3_RepliesThenOneReview ==
    /\ Cardinality(CallsOf("create_review")) <= 1
    /\ Cardinality(CallsOf("handle_replies")) <= 1
    /\ Cardinality(CallsOf("get_issue_comments")) <= 1
    /\ \A k \in CallsOf("create_review") :
          /\ \E h \in CallsOf("handle_replies") : h < k /\ calls[h].ok
          /\ \A m \in FileCalls \cup ReplyCalls : m < k
          /\ ~lastRun.running
          /\ Cardinality(CallsOf("get_contents")) = Len(records)
          /\ comments # <<>>
    /\ \A h \in ReplyCalls : \A m \in FileCalls : m < h
    /\ (pc = "done" /\ comments # <<>>) =>
          /\ Cardinality(CallsOf("handle_replies")) = 1
          /\ Cardinality(CallsOf("create_review")) = 1
          /\ lastRun.completed
          /\ Len(reviews) = 1
          /\ reviews[1].comments = comments
          /\ reviews[1].event = "COMMENT"

\* C3 witness: two files reviewed, handle_replies posted an answer while
\* somebody else commented, and the review is on the host.
C3_Witness ==
    /\ pc = "done"
    /\ Len(comments) = 2
    /\ Len(lastRun.posts) = 1
    /\ lastRun.at[1] > Len(lastRun.snapshot) + 1
    /\ Len(reviews) = 1

\* C4: a failed content fetch or completion call is the last call of the
\* run: main() is left at once, handle_replies is not run, it posts no answer
\* and no review is created.
C4_FailureAborts ==
    \A k \in FileCalls :
        ~calls[k].ok =>
            /\ k = Len(calls)
            /\ pc = "aborted"
            /\ ReplyCalls = {}
            /\ lastRun = NoRun
            /\ CallsOf("create_review") = {}
            /\ reviews = <<>>

\* C4 witness: the first file got its comment, the second file's completion
\* call failed, and an unanswered reply was waiting.
C4_Witness ==
    /\ pc = "aborted"
    /\ Len(comments) = 1
    /\ Len(records) = 2
    /\ calls # <<>> /\ ~calls[Len(calls)].ok
    /\ calls[Len(calls)].op = "chat_completion"
    /\ RepliesToAnswer(thread) # <<>>

\* C6: for a record whose content is empty there is no completion call and
\* no comment, in the local list or in a review; the empty file does not end
\* the run, and the loop goes on to the records after it.
C6_EmptySkipped ==
    \A k \in CallsOf("get_contents") :
        calls[k].empty =>
            /\ \A m \in CallsOf("chat_completion") : calls[m].path # calls[k].path
            /\ \A c \in 1..Len(comments) : comments[c].path # calls[k].path
            /\ \A r \in 1..Len(reviews) : \A c \in 1..Len(reviews[r].comments) :
                  reviews[r].comments[c].path # calls[k].path
            /\ k = Len(calls) => pc # "aborted"
            /\ pc = "loop" => idx = Cardinality(CallsOf("get_contents")) + 1
            /\ pc \in {"handle_replies", "answering", "posting", "create_review", "done"}
                  => Cardinality(CallsOf("get_contents")) = Len(records)

\* C6 witness: the first record was empty, the second was reviewed, and the
\* submitted review holds the second file's comment alone.
C6_Witness ==
    /\ pc = "done"
    /\ Len(records) = 2
    /\ Len(calls) >= 3
    /\ calls[1].op = "get_contents" /\ calls[1].empty
    /\ calls[1].path = records[1].filename
    /\ Len(reviews) = 1
    /\ Len(reviews[1].comments) = 1
    /\ reviews[1].comments[1].path = records[2].filename

\* C9: while no comment has been produced, handle_replies is not run, it
\* posts no answer, and no review is created.
C9_NoCommentNothingPosted ==
    comments = <<>> =>
        /\ ReplyCalls = {}
        /\ lastRun = NoRun
        /\ CallsOf("create_review") = {}
        /\ reviews = <<>>
        /\ pc \notin {"handle_replies", "answering", "posting", "create_review"}

\* C9 witness: a finished run whose only matched file was empty, on a pull
\* request with an unanswered reply to a bot comment.
C9_Witness ==
    /\ pc = "done"
    /\ comments = <<>>
    /\ records # <<>>
    /\ RepliesToAnswer(thread) # <<>>

====
